---------------------------- MODULE Spec2Model ----------------------------
(***************************************************************************)
(* A model of bfin (src/src/bfin.c), an interpreter for brainfuck.         *)
(*                                                                         *)
(* The tape is a doubly linked list of chunks of chunklen bytes, the data  *)
(* pointer is a chunk (page) and an offset in it (data), and execute runs  *)
(* one instruction string with a jump stack of left bracket positions.     *)
(* main executes the file named on the command line, if any, and then one  *)
(* line of standard input after the other, all against the same tape.      *)
(*                                                                         *)
(* Characters are their ASCII codes, strings are sequences of codes        *)
(* without the terminating NUL, a pointer into a string is a 1-based       *)
(* index, a chunk pointer is an index into chunks, and NULL is 0.          *)
(* One step of the model is one iteration of the for loop of execute.      *)
(***************************************************************************)
EXTENDS Integers, Sequences, FiniteSets

(***************************************************************************)
(* Characters (src/src/bfin.c, the cases of the switch in execute).        *)
(***************************************************************************)
GT == 62
LT == 60
PLUS == 43
MINUS == 45
DOT == 46
COMMA == 44
LB == 91
RB == 93
\* any byte that is no instruction; 'x'
X == 120
NL == 10
NUL == 0
NULL == 0
\* what getchar returns at the end of standard input
EOF == -1

(***************************************************************************)
(* Bounds of the model.                                                    *)
(***************************************************************************)
\* sysconf(_SC_PAGESIZE) of the modelled platform
PAGESIZE == 36
\* the longest line of the exhaustively enumerated standard inputs
MaxLen == 3
\* how often one position of the instruction string may be executed
MaxVisits == 256
\* the length of the runs of one instruction in the long file programs
MaxRun == 300
\* the longest excursion of the data pointer in the round trip programs
MaxMove == 9
\* the most requests a limited heap satisfies
MaxHeap == 16
\* the longest of the enumerated file programs of brackets only
MaxBrackets == 5

\* the bytes a block handed out by malloc may be filled with
JunkBytes == {0, 1, 255}
Byte == 0..255

VARIABLES
    argc,       \* main: 2 when a file is named on the command line
    file,       \* the named file: [exists |-> BOOLEAN, text |-> string]
    stdin,      \* the bytes of standard input not yet read
    junk,       \* the byte uninitialized heap blocks happen to hold
    chunks,     \* the memchunks allocated so far, in allocation order
    page,       \* the current chunk
    data,       \* the data pointer, as an offset into page->mem
    line,       \* execute: the instruction string
    c,          \* execute: the instruction pointer
    stack,      \* execute: the jump stack, top first
    pc,         \* "start", "exec", "prompt", "eof", "crashed"
    err,        \* the diagnostic of the last execute call, or "none"
    out,        \* the bytes written by putchar
    inp,        \* the values getchar returned
    mode,       \* whether line came from the file or from a line of stdin
    execd,      \* how often each position of line was executed in this call
    chunks0,    \* the tape at the start of this execute call
    page0,
    data0,
    ended,      \* how the execute calls that returned ended, in order
    heap        \* what malloc, calloc and realloc can still hand out

vars == <<argc, file, stdin, junk, chunks, page, data, line, c,
          stack, pc, err, out, inp, mode, execd, chunks0, page0, data0,
          ended, heap>>

env == <<argc, file, junk>>
tape == <<chunks, page, data>>
snapshot == <<chunks0, page0, data0>>

Min(S) == CHOOSE x \in S : \A y \in S : x <= y

(***************************************************************************)
(* init_bfin: the chunk size is the page size less 32 bytes for malloc's   *)
(* own block data, unless the page is smaller than that.                   *)
(***************************************************************************)
chunklen == IF PAGESIZE - 32 < 0 THEN PAGESIZE - 32 + 32 ELSE PAGESIZE - 32

(***************************************************************************)
(* The heap: malloc, calloc and realloc return NULL once the heap has      *)
(* handed out what it has; a heap that is not limited never does.  left    *)
(* counts the requests a limited heap still satisfies, failed names the    *)
(* kind of the request that failed.                                        *)
(***************************************************************************)
Unlimited == [limited |-> FALSE, left |-> 0, failed |-> "none"]
Limited(n) == [limited |-> TRUE, left |-> n, failed |-> "none"]
\* one of the next n requests fails
Short(h, n) == h.limited /\ h.left < n
\* the heap after n requests were satisfied, and after one failed
Taken(h, n) == IF h.limited THEN [h EXCEPT !.left = @ - n] ELSE h
Failed(h, what) == [h EXCEPT !.left = 0, !.failed = what]

\* what the failing call reports before exit(1) or return NULL
ChunkTypeError ==
    "Memory Allocation Error: Could not allocate a chunk type, exiting"
ChunkMemError ==
    "Memory Allocation Error: Could not allocate a chunk of memory, exiting"
JumpstackError ==
    "Memory Allocation Error: Could not allocate a jumpstack, exiting"
BufferError ==
    "Memory Allocation Error: Failed at allocating internal text buffer, exiting"
ResizeError ==
    "Memory Allocation Error: Failed at resizing internal text buffer, exiting"
LineError == "Memory Allocation Error: Could not read in line of text"
\* alloc_memchunk asks for the memchunk and then for its mem
chunk_error(h) == IF h.left = 0 THEN ChunkTypeError ELSE ChunkMemError

(***************************************************************************)
(* The tape.                                                               *)
(***************************************************************************)
\* alloc_memchunk: mem comes from malloc, which does not clear it
alloc_memchunk(fill) ==
    [next |-> NULL, prev |-> NULL, mem |-> [i \in 1..chunklen |-> fill]]

\* overflow_left without new->next = chunk
overflow_left_unlinked(chs, chunk, fill) ==
    LET new == Len(chs) + 1
    IN  Append([chs EXCEPT ![chunk].prev = new], alloc_memchunk(fill))

\* overflow_left: the chunks with a new chunk linked left of chunk
overflow_left(chs, chunk, fill) ==
    LET new == Len(chs) + 1
    IN  Append([chs EXCEPT ![chunk].prev = new],
               [alloc_memchunk(fill) EXCEPT !.next = chunk])

\* overflow_right without new->prev = chunk
overflow_right_unlinked(chs, chunk, fill) ==
    LET new == Len(chs) + 1
    IN  Append([chs EXCEPT ![chunk].next = new], alloc_memchunk(fill))

\* overflow_right: the chunks with a new chunk linked right of chunk
overflow_right(chs, chunk, fill) ==
    LET new == Len(chs) + 1
    IN  Append([chs EXCEPT ![chunk].next = new],
               [alloc_memchunk(fill) EXCEPT !.prev = chunk])

\* *data
Cell == chunks[page].mem[data + 1]

\* an increment that stops at 255
inc_saturating(v) == IF v = 255 THEN 255 ELSE v + 1

\* ++(*data) and --(*data) on a char
inc(v) == (v + 1) % 256
dec(v) == (v - 1) % 256

\* the conversion of getchar's int to the char stored by *data = getchar()
to_char(v) == v % 256

(***************************************************************************)
(* The jump stack.                                                         *)
(***************************************************************************)
\* a pop that drops the whole stack
pop_jump_all(stk) == <<>>

\* a push that allocates nothing and records nothing
push_jump_lost(stk, leftbracket) == stk

\* a push that puts the record under the stack
push_jump_under(stk, leftbracket) == stk \o <<leftbracket>>

push_jump(stk, leftbracket) == <<leftbracket>> \o stk
\* a pop that leaves the record on the stack
pop_jump_none(stk) == stk

pop_jump(stk) == Tail(stk)

(***************************************************************************)
(* match_right: from the left bracket at position p of l, the position of  *)
(* the next unmatched right bracket, NULL when the string ends first.      *)
(***************************************************************************)
\* a scan that stops at the first ']' whatever the nesting
RECURSIVE match_scan_flat(_, _, _)
match_scan_flat(l, i, count) ==
    IF i > Len(l) THEN NULL
    ELSE IF l[i] = RB THEN i
    ELSE match_scan_flat(l, i + 1, count)

RECURSIVE match_scan(_, _, _)
match_scan(l, i, count) ==
    IF i > Len(l) THEN NULL
    ELSE IF l[i] = LB THEN match_scan(l, i + 1, count + 1)
    ELSE IF l[i] = RB
         THEN IF count # 0 THEN match_scan(l, i + 1, count - 1) ELSE i
    ELSE match_scan(l, i + 1, count)

\* a scan that starts at the left bracket itself
match_right_inclusive(l, p) == match_scan(l, p, 0)

match_right(l, p) == match_scan(l, p + 1, 0)

(***************************************************************************)
(* Reading the program text.                                               *)
(***************************************************************************)
\* the C string a buffer holds: its bytes before the first NUL
cstr(buf) ==
    LET nuls == {i \in 1..Len(buf) : buf[i] = NUL}
    IN  IF nuls = {} THEN buf ELSE SubSeq(buf, 1, Min(nuls) - 1)

\* how many bytes fgets(s, n, stdin) reads: up to n - 1, none after a newline
fgets(in, n) ==
    LET most == IF Len(in) < n - 1 THEN Len(in) ELSE n - 1
        nls == {i \in 1..most : in[i] = NL}
    IN  IF nls = {} THEN most ELSE Min(nls)

\* the loop of get_line: buf is the buffer at start, end and len as in the
\* code (end as an offset from start); called with a newline left in in
RECURSIVE get_line_loop(_, _, _, _)
get_line_loop(in, buf, end, len) ==
    LET k == fgets(in, chunklen)
        buf1 == SubSeq(buf, 1, end) \o SubSeq(in, 1, k) \o <<NUL>>
        rest == SubSeq(in, k + 1, Len(in))
    IN  IF k > 0 /\ in[k] = NL
        THEN [line |-> cstr([buf1 EXCEPT ![end + k] = NUL]), rest |-> rest,
              grown |-> (len - chunklen) \div chunklen]
        ELSE get_line_loop(rest, buf1, (len + chunklen) - chunklen - 1,
                           len + chunklen)

get_line(in) == get_line_loop(in, <<>>, 0, chunklen)

\* how often get_prog calls realloc: after every fread but the last
get_prog_grown(f) == Len(f) \div chunklen

\* get_prog: the loop calls fread until fread is asked for more bytes than
\* the file has left, which is what sets the end-of-file indicator.  Call i
\* (from 0) is made with len = chunklen + 1 + i * chunklen, reads up to
\* chunklen bytes to start + end and writes a NUL behind them; later calls
\* overwrite what earlier calls wrote.
get_prog(f) ==
    LET calls == Len(f) \div chunklen + 1
        len(i) == (chunklen + 1) + i * chunklen
        end(i) == IF i = 0 THEN 0 ELSE len(i) - chunklen - 1
        left(i) == Len(f) - i * chunklen
        read(i) == IF left(i) < chunklen THEN left(i) ELSE chunklen
        size == end(calls - 1) + read(calls - 1) + 1
        last(j) == CHOOSE i \in 0..(calls - 1) :
                      /\ end(i) <= j /\ j <= end(i) + read(i)
                      /\ \A k \in (i + 1)..(calls - 1) :
                            ~(end(k) <= j /\ j <= end(k) + read(k))
        byte(j) == LET i == last(j)
                   IN  IF j = end(i) + read(i) THEN NUL
                       ELSE f[i * chunklen + (j - end(i)) + 1]
    IN  cstr([j \in 1..size |-> byte(j - 1)])

(***************************************************************************)
(* execute.  Enter is its entry from main, Return its normal return after  *)
(* the loop, Abandon the return from inside the loop after a diagnostic,   *)
(* and every other action is one iteration of the loop at one instruction. *)
(***************************************************************************)
\* an entry that goes on from where the instruction pointer was left
Enter_resumes(l, from) ==
    /\ line' = l
    /\ c' = c
    /\ stack' = <<>>
    /\ pc' = "exec"
    /\ err' = "none"
    /\ mode' = from
    /\ execd' = [i \in 1..Len(l) |-> 0]
    /\ chunks0' = chunks
    /\ page0' = page
    /\ data0' = data

\* execute is entered with line l: c = line, stack = NULL
Enter(l, from) ==
    /\ line' = l
    /\ c' = 1
    /\ stack' = <<>>
    /\ pc' = "exec"
    /\ err' = "none"
    /\ mode' = from
    /\ execd' = [i \in 1..Len(l) |-> 0]
    /\ chunks0' = chunks
    /\ page0' = page
    /\ data0' = data

\* the loop is at an instruction: *c != '\0'
At(ch) ==
    /\ pc = "exec"
    /\ c <= Len(line)
    /\ line[c] = ch
    /\ execd[c] < MaxVisits

\* the instruction at c is executed once more
Counted == execd' = [execd EXCEPT ![c] = @ + 1]

\* break, then the ++c of the for loop, from position p
Continue(p) == c' = p + 1

\* a return that first puts the tape back as it was when the call began
Abandon_rollback(diagnostic) ==
    /\ pc' = "prompt"
    /\ err' = diagnostic
    /\ ended' = Append(ended, diagnostic)
    /\ chunks' = chunks0
    /\ page' = page0
    /\ data' = data0
    /\ UNCHANGED <<c, stack, stdin, out, inp, heap>>

\* fprintf(stderr, ...); return;
Abandon(diagnostic) ==
    /\ pc' = "prompt"
    /\ err' = diagnostic
    /\ ended' = Append(ended, diagnostic)
    /\ UNCHANGED <<tape, c, stack, stdin, out, inp, heap>>

\* fprintf(stderr, ...); exit(1); after a request of kind what has failed
Exit(diagnostic, what) ==
    /\ pc' = "exited"
    /\ err' = diagnostic
    /\ heap' = Failed(heap, what)
    /\ UNCHANGED <<tape, c, stack, stdin, out, inp, ended>>

\* a failed assert aborts the process
AssertFails ==
    /\ pc' = "crashed"
    /\ UNCHANGED <<tape, c, stack, stdin, out, inp, err, ended, heap>>

\* data > page->mem + chunklen
past_end_late(d) == d > chunklen

\* data >= page->mem + chunklen, and data < page->mem
past_end(d) == d >= chunklen
before_start(d) == d < 0

\* page->mem + chunklen - 2
last_byte_short == chunklen - 2

\* page->mem, and page->mem + chunklen - 1
first_byte == 0
last_byte == chunklen - 1

\* case '>'
Advance ==
    /\ At(GT)
    /\ IF ~past_end(data + 1)
       THEN /\ data' = data + 1
            /\ Continue(c)
            /\ UNCHANGED <<chunks, page, pc, err, ended, heap>>
       ELSE IF chunks[page].next # NULL
       THEN /\ page' = chunks[page].next
            /\ data' = first_byte
            /\ Continue(c)
            /\ UNCHANGED <<chunks, pc, err, ended, heap>>
       ELSE IF Short(heap, 2)
       THEN Exit(chunk_error(heap), "chunk")
       ELSE /\ chunks' = overflow_right(chunks, page, junk)
            /\ page' = Len(chunks) + 1
            /\ data' = first_byte
            /\ heap' = Taken(heap, 2)
            /\ Continue(c)
            /\ UNCHANGED <<pc, err, ended>>
    /\ Counted
    /\ UNCHANGED <<env, stdin, line, stack, out, inp, mode, snapshot>>

\* case '<'
Retreat ==
    /\ At(LT)
    /\ IF ~before_start(data - 1)
       THEN /\ data' = data - 1
            /\ Continue(c)
            /\ UNCHANGED <<chunks, page, pc, err, ended, heap>>
       ELSE IF chunks[page].prev # NULL
       THEN /\ page' = chunks[page].prev
            /\ data' = last_byte
            /\ Continue(c)
            /\ UNCHANGED <<chunks, pc, err, ended, heap>>
       ELSE IF Short(heap, 2)
       THEN Exit(chunk_error(heap), "chunk")
       ELSE /\ chunks' = overflow_left(chunks, page, junk)
            /\ page' = Len(chunks) + 1
            /\ data' = last_byte
            /\ heap' = Taken(heap, 2)
            /\ Continue(c)
            /\ UNCHANGED <<pc, err, ended>>
    /\ Counted
    /\ UNCHANGED <<env, stdin, line, stack, out, inp, mode, snapshot>>

\* *data = v
Store(v) == chunks' = [chunks EXCEPT ![page].mem[data + 1] = v]

\* case '+'
Increment ==
    /\ At(PLUS)
    /\ Store(inc(Cell))
    /\ Continue(c)
    /\ Counted
    /\ UNCHANGED <<env, ended, heap, stdin, page, data, line, stack, pc, err,
                   out, inp, mode, snapshot>>

\* case '-'
Decrement ==
    /\ At(MINUS)
    /\ Store(dec(Cell))
    /\ Continue(c)
    /\ Counted
    /\ UNCHANGED <<env, ended, heap, stdin, page, data, line, stack, pc, err,
                   out, inp, mode, snapshot>>

\* case '.'
Output ==
    /\ At(DOT)
    /\ out' = Append(out, Cell)
    /\ Continue(c)
    /\ Counted
    /\ UNCHANGED <<env, ended, heap, stdin, tape, line, stack, pc, err, inp,
                   mode, snapshot>>

\* a ',' for which the end of standard input is an error
Input_eof_error ==
    /\ At(COMMA)
    /\ IF stdin = <<>>
       THEN Abandon("end of input")
       ELSE /\ Store(to_char(Head(stdin)))
            /\ inp' = Append(inp, Head(stdin))
            /\ stdin' = Tail(stdin)
            /\ Continue(c)
            /\ UNCHANGED <<page, data, stack, pc, err, out, ended, heap>>
    /\ Counted
    /\ UNCHANGED <<env, line, mode, snapshot>>

\* case ',': getchar reads the standard input the lines come from
Input ==
    /\ At(COMMA)
    /\ LET got == IF stdin = <<>> THEN EOF ELSE Head(stdin)
       IN  /\ Store(to_char(got))
           /\ inp' = Append(inp, got)
    /\ stdin' = IF stdin = <<>> THEN stdin ELSE Tail(stdin)
    /\ Continue(c)
    /\ Counted
    /\ UNCHANGED <<env, ended, heap, page, data, line, stack, pc, err, out,
                   mode, snapshot>>

\* a '[' that pushes a record on a non-zero cell whether or not it has a
\* matching ']'
left_case_pushes(v, right) ==
    IF v = 0
    THEN IF right = NULL THEN "error" ELSE "skip"
    ELSE "enter"

\* a '[' that reports a missing ']' whatever the cell holds
left_case_strict(v, right) ==
    IF right = NULL THEN "error"
    ELSE IF v = 0 THEN "skip" ELSE "enter"

\* the branch case '[' takes on cell value v, right being match_right(c)
left_case(v, right) ==
    IF v = 0
    THEN IF right = NULL THEN "error" ELSE "skip"
    ELSE IF right # NULL THEN "enter" ELSE "pass"

\* case '['
LeftBracket ==
    /\ At(LB)
    /\ LET right == match_right(line, c)
           branch == left_case(Cell, right)
       IN  CASE branch = "error" -> Abandon("'[' with no matching ']'")
             [] branch = "skip" ->
                    /\ Continue(right)
                    /\ UNCHANGED <<tape, stack, stdin, out, inp, pc, err,
                                   ended, heap>>
             [] branch = "enter" ->
                    IF Short(heap, 1)
                    THEN Exit(JumpstackError, "jump")
                    ELSE /\ stack' = push_jump(stack, c)
                         /\ heap' = Taken(heap, 1)
                         /\ Continue(c)
                         /\ UNCHANGED <<tape, stdin, out, inp, pc, err,
                                        ended>>
             [] branch = "pass" ->
                    /\ Continue(c)
                    /\ UNCHANGED <<tape, stack, stdin, out, inp, pc, err,
                                   ended, heap>>
    /\ Counted
    /\ UNCHANGED <<env, line, mode, snapshot>>

\* a jump back that lands on the '[' itself: the position before it, from
\* which the ++c of the loop goes on
leftbracket_itself(stk) == Head(stk) - 1

\* a jump back that lands behind the first instruction of the loop body
leftbracket_next(stk) == Head(stk) + 1

\* stack->leftbracket
leftbracket(stk) == Head(stk)

\* the branch case ']' takes on cell value v with jump stack stk; pop_jump
\* asserts that its stack is not NULL
right_case(v, stk) ==
    IF v # 0
    THEN IF stk = <<>> THEN "error" ELSE "repeat"
    ELSE IF stk = <<>> THEN "assert" ELSE "leave"

\* case ']'
RightBracket ==
    /\ At(RB)
    /\ LET branch == right_case(Cell, stack)
       IN  CASE branch = "error" -> Abandon("']' with no matching '['")
             [] branch = "repeat" ->
                    /\ Continue(leftbracket(stack))
                    /\ UNCHANGED <<tape, stack, stdin, out, inp, pc, err,
                                   ended, heap>>
             [] branch = "assert" -> AssertFails
             [] branch = "leave" ->
                    /\ stack' = pop_jump(stack)
                    /\ Continue(c)
                    /\ UNCHANGED <<tape, stdin, out, inp, pc, err, ended,
                                   heap>>
    /\ Counted
    /\ UNCHANGED <<env, line, mode, snapshot>>

\* a byte without a case that clears the current cell
Other_clears ==
    /\ pc = "exec"
    /\ c <= Len(line)
    /\ line[c] \notin {GT, LT, PLUS, MINUS, DOT, COMMA, LB, RB}
    /\ execd[c] < MaxVisits
    /\ Store(0)
    /\ Continue(c)
    /\ Counted
    /\ UNCHANGED <<env, ended, heap, stdin, page, data, line, stack, pc, err,
                   out, inp, mode, snapshot>>

\* any other character: no case of the switch
Other ==
    /\ pc = "exec"
    /\ c <= Len(line)
    /\ line[c] \notin {GT, LT, PLUS, MINUS, DOT, COMMA, LB, RB}
    /\ execd[c] < MaxVisits
    /\ Continue(c)
    /\ Counted
    /\ UNCHANGED <<env, ended, heap, stdin, tape, line, stack, pc, err, out,
                   inp, mode, snapshot>>

\* a return of execute that puts the cursor back where init_bfin had it
Return_recentres ==
    /\ pc = "exec"
    /\ c > Len(line)
    /\ stack' = <<>>
    /\ pc' = "prompt"
    /\ ended' = Append(ended, "none")
    /\ data' = chunklen \div 2
    /\ UNCHANGED <<env, heap, stdin, chunks, page, line, c, err, out, inp,
                   mode, execd, snapshot>>

\* *c == '\0': destroy_jumpstack(stack) and the return to main
Return ==
    /\ pc = "exec"
    /\ c > Len(line)
    /\ stack' = <<>>
    /\ pc' = "prompt"
    /\ ended' = Append(ended, "none")
    /\ UNCHANGED <<env, heap, stdin, tape, line, c, err, out, inp, mode, execd,
                   snapshot>>

(***************************************************************************)
(* execute as a function.  A state of execute is a record of the tape, the *)
(* streams and its locals; Iterate is one iteration of its loop on string  *)
(* l, or its return when c is at the terminator.                           *)
(***************************************************************************)
Current ==
    [chunks |-> chunks, page |-> page, data |-> data, stdin |-> stdin,
     out |-> out, inp |-> inp, c |-> c, stack |-> stack, pc |-> pc,
     err |-> err, heap |-> heap]

Instructions == {GT, LT, PLUS, MINUS, DOT, COMMA, LB, RB}

Iterate(l, s) ==
    LET cell == s.chunks[s.page].mem[s.data + 1]
        stored(v) == [s.chunks EXCEPT ![s.page].mem[s.data + 1] = v]
        on == s.c + 1
        got == IF s.stdin = <<>> THEN EOF ELSE Head(s.stdin)
        right == match_right(l, s.c)
        left == left_case(cell, right)
        back == right_case(cell, s.stack)
        exit(diagnostic, what) ==
            [s EXCEPT !.pc = "exited", !.err = diagnostic,
                      !.heap = Failed(s.heap, what)]
    IN  IF s.c > Len(l)
        THEN [s EXCEPT !.stack = <<>>, !.pc = "prompt"]
        ELSE CASE l[s.c] = GT ->
                    IF ~past_end(s.data + 1)
                    THEN [s EXCEPT !.data = s.data + 1, !.c = on]
                    ELSE IF s.chunks[s.page].next # NULL
                    THEN [s EXCEPT !.page = s.chunks[s.page].next,
                                   !.data = first_byte, !.c = on]
                    ELSE IF Short(s.heap, 2)
                    THEN exit(chunk_error(s.heap), "chunk")
                    ELSE [s EXCEPT
                            !.chunks = overflow_right(s.chunks, s.page, junk),
                            !.page = Len(s.chunks) + 1,
                            !.data = first_byte, !.c = on,
                            !.heap = Taken(s.heap, 2)]
               [] l[s.c] = LT ->
                    IF ~before_start(s.data - 1)
                    THEN [s EXCEPT !.data = s.data - 1, !.c = on]
                    ELSE IF s.chunks[s.page].prev # NULL
                    THEN [s EXCEPT !.page = s.chunks[s.page].prev,
                                   !.data = last_byte, !.c = on]
                    ELSE IF Short(s.heap, 2)
                    THEN exit(chunk_error(s.heap), "chunk")
                    ELSE [s EXCEPT
                            !.chunks = overflow_left(s.chunks, s.page, junk),
                            !.page = Len(s.chunks) + 1,
                            !.data = last_byte, !.c = on,
                            !.heap = Taken(s.heap, 2)]
               [] l[s.c] = PLUS ->
                    [s EXCEPT !.chunks = stored(inc(cell)), !.c = on]
               [] l[s.c] = MINUS ->
                    [s EXCEPT !.chunks = stored(dec(cell)), !.c = on]
               [] l[s.c] = DOT ->
                    [s EXCEPT !.out = Append(s.out, cell), !.c = on]
               [] l[s.c] = COMMA ->
                    [s EXCEPT !.chunks = stored(to_char(got)),
                              !.inp = Append(s.inp, got),
                              !.stdin = IF s.stdin = <<>> THEN s.stdin
                                        ELSE Tail(s.stdin),
                              !.c = on]
               [] l[s.c] = LB ->
                    (CASE left = "error" ->
                            [s EXCEPT !.pc = "prompt",
                                      !.err = "'[' with no matching ']'"]
                      [] left = "skip" -> [s EXCEPT !.c = right + 1]
                      [] left = "enter" ->
                            IF Short(s.heap, 1)
                            THEN exit(JumpstackError, "jump")
                            ELSE [s EXCEPT
                                    !.stack = push_jump(s.stack, s.c),
                                    !.heap = Taken(s.heap, 1), !.c = on]
                      [] left = "pass" -> [s EXCEPT !.c = on])
               [] l[s.c] = RB ->
                    (CASE back = "error" ->
                            [s EXCEPT !.pc = "prompt",
                                      !.err = "']' with no matching '['"]
                      [] back = "repeat" ->
                            [s EXCEPT !.c = leftbracket(s.stack) + 1]
                      [] back = "assert" -> [s EXCEPT !.pc = "crashed"]
                      [] back = "leave" ->
                            [s EXCEPT !.stack = pop_jump(s.stack), !.c = on])
               [] OTHER -> [s EXCEPT !.c = on]

(***************************************************************************)
(* main.                                                                   *)
(***************************************************************************)
\* argc == 2 and the file opens: get_prog and execute
\* When a realloc of get_prog fails, get_prog tests start, not temp, so it
\* goes on with start = NULL and the next fread writes through a pointer
\* computed from NULL: the process is killed, nothing is reported.
RunFile ==
    /\ pc = "start"
    /\ argc = 2 /\ file.exists
    /\ IF Short(heap, get_prog_grown(file.text))
       THEN /\ pc' = "crashed"
            /\ heap' = Failed(heap, "text")
            /\ UNCHANGED <<line, c, stack, err, mode, execd, snapshot>>
       ELSE /\ Enter(get_prog(file.text), "file")
            /\ heap' = Taken(heap, get_prog_grown(file.text))
    /\ UNCHANGED <<env, ended, stdin, tape, out, inp>>

\* no file is named, or fopen fails: on to the loop
NoFile ==
    /\ pc = "start"
    /\ ~(argc = 2 /\ file.exists)
    /\ pc' = "prompt"
    /\ UNCHANGED <<env, ended, heap, stdin, tape, line, c, stack, err, out,
                   inp, mode, execd, snapshot>>

HasLine(in) == \E i \in 1..Len(in) : in[i] = NL

\* how often main has called realloc(line, chunklen) since the state the
\* model shows as the return of execute: once after every call of execute
resized == IF mode = "none" THEN 0 ELSE 1

\* get_line has reported a failed realloc and returned NULL, execute(NULL)
\* has returned at once, and main stores to line[0]: either that store
\* kills the process, or the build has dropped it and realloc(NULL,
\* chunklen) fails as well, which main reports before exit(1)
LineLost ==
    /\ \/ pc' = "crashed" /\ err' = LineError
       \/ pc' = "exited" /\ err' = ResizeError
    /\ heap' = Failed(heap, "text")
    /\ UNCHANGED <<line, c, stack, mode, execd, snapshot, ended>>

\* the while loop of main: after the first call of execute realloc(line,
\* chunklen), then get_line and execute
ReadLine ==
    /\ pc = "prompt"
    /\ HasLine(stdin)
    /\ LET got == get_line(stdin)
           read == (heap.left - resized + 1) * (chunklen - 1)
       IN  IF Short(heap, resized)
           THEN /\ Exit(ResizeError, "text")
                /\ UNCHANGED <<line, mode, execd, snapshot>>
           ELSE IF Short(heap, resized + got.grown)
           THEN /\ LineLost
                /\ stdin' = SubSeq(stdin, read + 1, Len(stdin))
           ELSE /\ Enter(got.line, "line")
                /\ stdin' = got.rest
                /\ heap' = Taken(heap, resized + got.grown)
                /\ UNCHANGED ended
    /\ UNCHANGED <<env, tape, out, inp>>

\* standard input ends before a newline: get_line keeps calling fgets and
\* growing the buffer and never hands main another line, unless the heap
\* gives out
EndOfInput ==
    /\ pc = "prompt"
    /\ ~HasLine(stdin)
    /\ IF Short(heap, resized)
       THEN /\ Exit(ResizeError, "text")
            /\ UNCHANGED <<line, mode, execd, snapshot>>
       ELSE IF heap.limited
       THEN /\ LineLost
            /\ stdin' = <<>>
       ELSE /\ pc' = "eof"
            /\ stdin' = <<>>
            /\ UNCHANGED <<line, c, stack, err, mode, execd, snapshot,
                           ended, heap>>
    /\ UNCHANGED <<env, tape, out, inp>>

(***************************************************************************)
(* The runs checked: what is on the command line and on standard input.    *)
(***************************************************************************)
Rep(ch, n) == [i \in 1..n |-> ch]
NoArg == [exists |-> FALSE, text |-> <<>>]
Named(text) == [exists |-> TRUE, text |-> text]
Run(n, f, in) == [argc |-> n, file |-> f, stdin |-> in]

Alphabet == {GT, LT, PLUS, MINUS, DOT, COMMA, LB, RB, X}
Lines == UNION {[1..k -> Alphabet] : k \in 0..MaxLen}
\* the line typed after each enumerated line: +[-].
Probe == <<PLUS, LB, MINUS, RB, DOT>>
\* [-]
Clear == <<LB, MINUS, RB>>
\* [[-]>]
ClearTwo == <<LB, LB, MINUS, RB, GT, RB>>
\* ,>,>,<<
SetThree == <<COMMA, GT, COMMA, GT, COMMA, LT, LT>>
Small == {0, 1, 2}

\* every short line, typed, and then the probe
TypedRuns == {Run(1, NoArg, l \o <<NL>> \o Probe \o <<NL>>) : l \in Lines}
\* a file that cannot be opened
MissingFileRuns == {Run(2, NoArg, Probe \o <<NL>>)}
\* a file sets the cell to any byte, then [-] is typed
ClearRuns == {Run(2, Named(<<COMMA>>), <<v>> \o Clear \o <<NL>>) : v \in Byte}
\* a file sets three cells, then [[-]>] is typed
ClearTwoRuns ==
    {Run(2, Named(SetThree), d \o ClearTwo \o <<NL>>) : d \in [1..3 -> Small]}
\* a file of MaxRun times + or -
ArithRuns == {Run(2, Named(Rep(ch, MaxRun)), <<>>) : ch \in {PLUS, MINUS}}
\* a file sets the cell to any byte, goes k cells away and comes back
TripRuns ==
    {Run(2, Named(<<COMMA>> \o Rep(m[1], k) \o Rep(m[2], k)), <<v>>) :
        m \in {<<GT, LT>>, <<LT, GT>>}, k \in 0..MaxMove, v \in Byte}
\* x++[x-x]x. with x for any byte that is no instruction
Commented == <<X, PLUS, PLUS, LB, X, MINUS, X, RB, X, DOT>>
\* a file with such bytes around and inside a loop
CommentRuns == {Run(2, Named(Commented), <<>>)}
\* [>[-]<-]
DrainBoth == <<LB, GT, LB, MINUS, RB, LT, MINUS, RB>>
\* [[[-]]], [-]>[-] and [>[[-]]<[-]]
Nested ==
    {DrainBoth,
     <<LB, LB, LB, MINUS, RB, RB, RB>>,
     <<LB, MINUS, RB, GT, LB, MINUS, RB>>,
     <<LB, GT, LB, LB, MINUS, RB, RB, LT, LB, MINUS, RB, RB>>}
\* a file sets three cells and goes on with nested loops
NestRuns ==
    {Run(2, Named(SetThree \o l), d) : d \in [1..3 -> Small], l \in Nested}
\* +[>>]x., which needs two reallocs to be read, a jump record and a chunk
Grower == <<PLUS, LB, GT, GT, RB, X, DOT, COMMA>>
\* the runs on a limited heap: a file and a line that need the text buffer
\* grown, and no file
LowRuns ==
    {Run(2, Named(Grower), <<LT, LT, LT, MINUS, NL>>),
     Run(1, NoArg, <<GT, GT, NL>>)}
\* a file of nothing but brackets
BracketRuns ==
    {Run(2, Named(l), <<>>) :
        l \in UNION {[1..k -> {LB, RB}] : k \in 1..MaxBrackets}}
\* a file reads two bytes and prints the second; standard input has none or
\* only one
EndRuns == {Run(2, Named(<<COMMA, COMMA, DOT>>), in) : in \in {<<>>, <<X>>}}

\* balanced programs: nothing, one instruction, loops that clear, move and
\* scan, and a nested loop
Pieces ==
    {<<>>, <<PLUS>>, <<GT>>, <<COMMA>>, <<DOT>>, <<LB, MINUS, RB>>,
     <<GT, LB, MINUS, RB>>, <<LB, GT, RB>>, <<LB, LB, MINUS, RB, GT, RB>>,
     <<PLUS, LB, GT, PLUS, LT, MINUS, RB>>}
\* a file holds one balanced program and another one is typed, followed by
\* nothing or by one byte of data
PairRuns ==
    {Run(2, Named(p1), p2 \o <<NL>> \o d) :
        p1 \in Pieces,
        p2 \in {p \in Pieces : Len(p) <= 2 * (chunklen - 1)},
        d \in {<<>>, <<2>>}}

Runs == TypedRuns \cup MissingFileRuns \cup ClearRuns \cup ClearTwoRuns
            \cup ArithRuns \cup TripRuns \cup EndRuns \cup CommentRuns
            \cup NestRuns \cup BracketRuns \cup PairRuns

\* main after init_bfin and the allocation of the text buffer, which take
\* three requests: the first memchunk, its mem and line.  When one of them
\* fails the process has reported it and is gone.
Start(r, h) ==
    /\ argc = r.argc
    /\ file = r.file
    /\ stdin = r.stdin
    /\ junk \in JunkBytes
    /\ IF Short(h, 2)
       THEN /\ chunks = <<>>
            /\ page = NULL
            /\ data = 0
            /\ pc = "exited"
            /\ err = chunk_error(h)
            /\ heap = Failed(h, "chunk")
       ELSE /\ chunks = <<alloc_memchunk(junk)>>
            /\ page = 1
            /\ data = chunklen \div 2
            /\ IF Short(h, 3)
               THEN /\ pc = "exited"
                    /\ err = BufferError
                    /\ heap = Failed(h, "text")
               ELSE /\ pc = "start"
                    /\ err = "none"
                    /\ heap = Taken(h, 3)
    /\ line = <<>>
    /\ c = 1
    /\ stack = <<>>
    /\ out = <<>>
    /\ inp = <<>>
    /\ mode = "none"
    /\ execd = <<>>
    /\ chunks0 = chunks
    /\ page0 = page
    /\ data0 = data
    /\ ended = <<>>

\* the heap never gives out
Init == \E r \in Runs : Start(r, Unlimited)

\* the heap gives out after MaxHeap requests or less
LowInit == \E r \in LowRuns, n \in 0..MaxHeap : Start(r, Limited(n))

Next ==
    \/ RunFile
    \/ NoFile
    \/ ReadLine
    \/ EndOfInput
    \/ Advance
    \/ Retreat
    \/ Increment
    \/ Decrement
    \/ Output
    \/ Input
    \/ LeftBracket
    \/ RightBracket
    \/ Other
    \/ Return

Spec == Init /\ [][Next]_vars
LowSpec == LowInit /\ [][Next]_vars

(***************************************************************************)
(* Properties.                                                             *)
(***************************************************************************)
LeftDiagnostic == "'[' with no matching ']'"
RightDiagnostic == "']' with no matching '['"

\* execute is about to execute the character ch
Reaches(ch) == pc = "exec" /\ c <= Len(line) /\ line[c] = ch

\* the byte a tape holds at offset d of chunk p
ByteAt(chs, p, d) == chs[p].mem[d + 1]
\* the cell under the data pointer when this execute call began
Cell0 == ByteAt(chunks0, page0, data0)

\* the execute call has returned to main
Returned == pc = "prompt" /\ mode # "none"

\* this step executes no instruction beyond position p of the line
NothingAfter(p) ==
    \A i \in 1..Len(line) : i # p => execd'[i] = execd[i]

\* C1: whenever execute reaches a ']' with an empty jump stack, whatever the
\* current cell holds, it reports the unmatched ']' and returns to main; the
\* process does not crash.
UnmatchedRightIsReported ==
    [][(Reaches(RB) /\ stack = <<>>)
          => (pc' = "prompt" /\ err' = RightDiagnostic)]_vars

\* C2, as claimed: a '[' without a matching ']' is reported and the
\* invocation abandoned whatever the current cell holds.
UnmatchedLeftIsReported ==
    [][(Reaches(LB) /\ match_right(line, c) = NULL)
          => (pc' = "prompt" /\ err' = LeftDiagnostic)]_vars

\* C2, amended: a '[' without a matching ']' is reported, and the
\* invocation abandoned with no later instruction executed, exactly when
\* the current cell is zero; on a non-zero cell nothing is reported, no jump
\* record is pushed and execution continues with the next instruction.
UnmatchedLeftByCell ==
    [][(Reaches(LB) /\ match_right(line, c) = NULL)
          => IF Cell = 0
             THEN /\ pc' = "prompt"
                  /\ err' = LeftDiagnostic
                  /\ NothingAfter(c)
             ELSE /\ pc' = "exec"
                  /\ err' = "none"
                  /\ c' = c + 1
                  /\ UNCHANGED <<tape, stack, out, inp, stdin>>]_vars

\* C2: an unmatched '[' was passed on a non-zero cell and a later unmatched
\* '[' on a zero cell ended the invocation
UnmatchedLeftBothWays ==
    /\ pc = "prompt"
    /\ err = LeftDiagnostic
    /\ \E i \in 1..(c - 1) :
          line[i] = LB /\ match_right(line, i) = NULL /\ execd[i] > 0

\* C3: the step that abandons an invocation on a bracket error changes no
\* cell, does not move the cursor, allocates nothing, writes and reads no
\* byte and executes no other instruction, so the tape is the one the
\* instructions before the error left; and nothing changes the tape or the
\* streams until main starts the next invocation.
AbandonKeepsTape ==
    [][/\ (pc = "exec" /\ pc' = "prompt" /\ err' # "none")
            => /\ UNCHANGED <<tape, out, inp, stdin>>
               /\ NothingAfter(c)
       /\ pc = "prompt" => UNCHANGED <<tape, out, inp>>]_vars

\* C3: an invocation was abandoned after it had changed the tape and
\* written a byte
AbandonedAfterChanges ==
    /\ pc = "prompt"
    /\ err # "none"
    /\ chunks # chunks0
    /\ out # <<>>

\* C4: every chunk added to the tape holds only zero bytes, so a cell that
\* was never written reads as 0.
FreshChunksAreZero ==
    [][Len(chunks') > Len(chunks)
          => \A d \in 0..(chunklen - 1) :
                ByteAt(chunks', Len(chunks'), d) = 0]_vars

\* the tape differs from the tape at the start of the call at most in the
\* cells cs, given as <<chunk, offset>>
OnlyChanged(cs) ==
    /\ Len(chunks) >= Len(chunks0)
    /\ \A p \in 1..Len(chunks0) : \A d \in 0..(chunklen - 1) :
          <<p, d>> \notin cs => ByteAt(chunks, p, d) = ByteAt(chunks0, p, d)

\* C5: [-] on a cell holding v returns without a diagnostic, the cell 0,
\* the cursor where it was and no other cell changed, after executing the
\* '-' exactly v times (never when v = 0); while it runs, the '[' has been
\* executed at most once and the '-' and the ']' at most v times.
ClearLoop ==
    line = Clear =>
        /\ pc = "exec" =>
              /\ execd[1] <= 1
              /\ execd[2] <= Cell0
              /\ execd[3] <= Cell0
        /\ Returned =>
              /\ err = "none"
              /\ Cell = 0
              /\ page = page0 /\ data = data0
              /\ OnlyChanged({<<page0, data0>>})
              /\ Len(chunks) = Len(chunks0)
              /\ execd[2] = Cell0
        /\ pc # "crashed"

\* C5: [-] has returned after 255 rounds
ClearLoopLongest ==
    Returned /\ line = Clear /\ Cell0 = 255 /\ execd[2] = 255

\* the cell right of the cell pos = <<chunk, offset>> on the tape chs; its
\* chunk is NULL when that chunk is not allocated
RightOf(chs, pos) ==
    IF pos[1] = NULL THEN pos
    ELSE IF pos[2] + 1 < chunklen THEN <<pos[1], pos[2] + 1>>
    ELSE <<chs[pos[1]].next, 0>>

\* the cell under the cursor and the two cells right of it when this call
\* began
CellA == <<page0, data0>>
CellB == RightOf(chunks0, CellA)
CellC == RightOf(chunks0, CellB)
Val0(pos) == ByteAt(chunks0, pos[1], pos[2])
Val(pos) == ByteAt(chunks, pos[1], pos[2])

\* [[-]>] was typed with the cell under the cursor and the cell right of it
\* both non-zero
TwoNonZero ==
    /\ line = ClearTwo
    /\ mode = "line"
    /\ CellB[1] # NULL /\ CellC[1] # NULL
    /\ Val0(CellA) # 0
    /\ Val0(CellB) # 0

\* C6, as claimed: [[-]>] on two consecutive non-zero cells returns without
\* a diagnostic, both cells 0 and the cursor one past the second.
ClearTwoStopsAfterSecond ==
    (TwoNonZero /\ Returned)
        => /\ err = "none"
           /\ Val(CellA) = 0
           /\ Val(CellB) = 0
           /\ <<page, data>> = CellC

\* C6, amended: [[-]>] on two consecutive non-zero cells followed by a zero
\* cell returns without a diagnostic, both cells 0, no other cell changed
\* and the cursor one past the second; while it runs, the outer '[' has
\* been executed at most once, the inner '[', the '>' and the outer ']' at
\* most twice, and the '-' at most once for each unit the two cells held.
ClearTwoThenZero ==
    (TwoNonZero /\ Val0(CellC) = 0)
        => /\ pc # "crashed"
           /\ pc = "exec" =>
                 /\ execd[1] <= 1
                 /\ execd[2] <= 2
                 /\ execd[3] <= Val0(CellA) + Val0(CellB)
                 /\ execd[4] <= Val0(CellA) + Val0(CellB)
                 /\ execd[5] <= 2
                 /\ execd[6] <= 2
           /\ Returned =>
                 /\ err = "none"
                 /\ Val(CellA) = 0
                 /\ Val(CellB) = 0
                 /\ <<page, data>> = CellC
                 /\ OnlyChanged({CellA, CellB})
                 /\ Len(chunks) = Len(chunks0)

\* C6: [[-]>] has returned from two non-zero cells followed by a zero cell
ClearTwoDone ==
    /\ TwoNonZero
    /\ Val0(CellC) = 0
    /\ Returned
    /\ execd[3] = Val0(CellA) + Val0(CellB)
    /\ Val0(CellA) # Val0(CellB)

\* the instructions executed so far in this call are the first c - 1 of the
\* line, each of them ch, once each
StraightRun(ch) ==
    /\ mode # "none"
    /\ pc \in {"exec", "prompt"}
    /\ \A i \in 1..(c - 1) : line[i] = ch /\ execd[i] = 1

\* C7: after n times '+' the cell holds (v + n) mod 256 and after n times
\* '-' it holds (v - n) mod 256, v being what it held before; the cursor has
\* not moved, no other cell has changed, and a line of nothing else ends
\* without a diagnostic.
ArithmeticWraps ==
    /\ StraightRun(PLUS) =>
          /\ Cell = (Cell0 + (c - 1)) % 256
          /\ c > Len(line) => err = "none"
          /\ page = page0 /\ data = data0
          /\ OnlyChanged({CellA})
    /\ StraightRun(MINUS) =>
          /\ Cell = (Cell0 - (c - 1)) % 256
          /\ c > Len(line) => err = "none"
          /\ page = page0 /\ data = data0
          /\ OnlyChanged({CellA})

\* C7: 300 times '+' on a zero cell have left 44
ThreeHundredPlus ==
    /\ StraightRun(PLUS)
    /\ c - 1 = 300
    /\ Cell0 = 0
    /\ Cell = 44

\* l is a ',' followed by k moves one way and k moves back
IsTrip(l) ==
    /\ Len(l) >= 1
    /\ l[1] = COMMA
    /\ (Len(l) - 1) % 2 = 0
    /\ LET k == (Len(l) - 1) \div 2
       IN  \E m \in {<<GT, LT>>, <<LT, GT>>} :
              \A i \in 1..k : l[1 + i] = m[1] /\ l[1 + k + i] = m[2]

\* the instructions executed so far in this call are such a round trip
TripDone ==
    /\ mode # "none"
    /\ pc \in {"exec", "prompt"}
    /\ c - 1 <= Len(line)
    /\ IsTrip(SubSeq(line, 1, c - 1))

\* C8: after a byte v is stored in the cell and the cursor has gone k cells
\* right and k back, or k left and k back, the cursor is on the chunk and
\* the offset it started from, the cell holds v and no other cell that
\* existed before has changed; a line of nothing else ends without a
\* diagnostic.
RoundTrip ==
    TripDone =>
        /\ page = page0 /\ data = data0
        /\ Cell = to_char(inp[Len(inp)])
        /\ OnlyChanged({CellA})
        /\ c > Len(line) => err = "none"

\* C8: a round trip over two chunk boundaries is done with 200 in the cell
LongTripDone ==
    /\ TripDone
    /\ Len(chunks) >= 3
    /\ Len(chunks0) = 1
    /\ Cell = 200

\* C9: the cursor is always on an allocated chunk at an offset from 0 to
\* chunklen - 1; '>' goes to the next offset or, from the last offset, to
\* offset 0 of the right neighbour, and '<' goes to the previous offset or,
\* from offset 0, to offset chunklen - 1 of the left neighbour.
CursorInChunk ==
    /\ [](page \in 1..Len(chunks) /\ data \in 0..(chunklen - 1))
    /\ [][/\ (Reaches(GT) /\ data = chunklen - 1)
               => /\ data' = 0
                  /\ page' # NULL
                  /\ page' = chunks'[page].next
          /\ (Reaches(GT) /\ data < chunklen - 1)
               => data' = data + 1 /\ page' = page
          /\ (Reaches(LT) /\ data = 0)
               => /\ data' = chunklen - 1
                  /\ page' # NULL
                  /\ page' = chunks'[page].prev
          /\ (Reaches(LT) /\ data > 0)
               => data' = data - 1 /\ page' = page]_vars

\* C9: the cursor has crossed to the right neighbour and is back from it at
\* the last offset
BackOverBoundary ==
    /\ pc = "exec"
    /\ c > 1
    /\ line[c - 1] = LT
    /\ data = chunklen - 1
    /\ page = page0
    /\ chunks[page].next # NULL

\* how many chunks are reached from chunk p by following next, for at most
\* n chunks
RECURSIVE Chain(_, _, _)
Chain(chs, p, n) ==
    IF p = NULL \/ n = 0 THEN 0 ELSE 1 + Chain(chs, chs[p].next, n - 1)

ChunkIds == 1..Len(chunks)

\* the chunks are one sequence, linked both ways
Linked ==
    /\ \A p \in ChunkIds :
          /\ chunks[p].next \in ChunkIds \cup {NULL}
          /\ chunks[p].prev \in ChunkIds \cup {NULL}
          /\ chunks[p].next # NULL => chunks[chunks[p].next].prev = p
          /\ chunks[p].prev # NULL => chunks[chunks[p].prev].next = p
    /\ \E left \in ChunkIds :
          /\ \A p \in ChunkIds : chunks[p].prev = NULL <=> p = left
          /\ Chain(chunks, left, Len(chunks) + 1) = Len(chunks)
    /\ \E right \in ChunkIds :
          \A p \in ChunkIds : chunks[p].next = NULL <=> p = right

\* C10: the chunks always form one doubly linked sequence without a cycle,
\* with one leftmost and one rightmost chunk; a step allocates at most one
\* chunk, and only a '>' at the last offset of a chunk without right
\* neighbour or a '<' at offset 0 of a chunk without left neighbour does,
\* the new chunk becoming that neighbour; a link once set never changes.
ChunksAreAList ==
    /\ []Linked
    /\ [][/\ Len(chunks') # Len(chunks) =>
                /\ Len(chunks') = Len(chunks) + 1
                /\ page' = Len(chunks')
                /\ \/ /\ Reaches(GT)
                      /\ data = chunklen - 1
                      /\ chunks[page].next = NULL
                      /\ chunks'[page].next = page'
                   \/ /\ Reaches(LT)
                      /\ data = 0
                      /\ chunks[page].prev = NULL
                      /\ chunks'[page].prev = page'
          /\ \A p \in ChunkIds :
                /\ chunks[p].next # NULL => chunks'[p].next = chunks[p].next
                /\ chunks[p].prev # NULL => chunks'[p].prev = chunks[p].prev]_vars

\* C10: the cursor is back on the first chunk over two chunks that were
\* allocated on the way out
BackOnFirstChunk ==
    /\ Len(chunks) = 3
    /\ page = 1
    /\ c > 1
    /\ line[c - 1] \in {GT, LT}
    /\ chunks[1].next # NULL \/ chunks[1].prev # NULL

\* C11: an execute call, of the file program or of a line, starts at the
\* first character with an empty jump stack on the tape and the cursor as
\* they are; the return of a call, after the last character or on a bracket
\* error, changes neither, and nothing changes them between two calls: the
\* tape and the cursor a call starts with are those the previous call ended
\* with.
TapeIsCarried ==
    [][/\ (pc # "exec" /\ pc' = "exec")
            => /\ UNCHANGED tape
               /\ snapshot' = tape
               /\ stack' = <<>>
               /\ c' = 1
               /\ \A i \in 1..Len(line') : execd'[i] = 0
       /\ (pc = "exec" /\ pc' = "prompt") => UNCHANGED tape
       /\ pc = "prompt" => UNCHANGED tape]_vars

\* C11: a line is about to be executed on a tape that the line before it
\* changed before it was abandoned on a bracket error
CarriedPastAbandon ==
    /\ pc = "exec"
    /\ mode = "line"
    /\ c = 1
    /\ Len(ended) = 1
    /\ ended[1] # "none"
    /\ Cell # junk

\* the string l holds no bracket
NoBracket(l) == \A i \in 1..Len(l) : l[i] \notin {LB, RB}

\* C12: a call on a string without brackets never ends in a diagnostic or
\* a failed assertion; each of its steps executes the character at the
\* instruction pointer and moves on to the next one, so that at any moment
\* the characters before the instruction pointer have been executed once
\* each and the others not at all, and after the last character the call
\* returns.
OnlyBracketsFail ==
    /\ [](NoBracket(line) =>
            /\ pc # "crashed"
            /\ err = "none"
            /\ mode # "none" =>
                  /\ c \in 1..(Len(line) + 1)
                  /\ \A i \in 1..Len(line) :
                        execd[i] = IF i < c THEN 1 ELSE 0)
    /\ [][(NoBracket(line) /\ pc = "exec")
             => IF c <= Len(line)
                THEN /\ pc' = "exec"
                     /\ c' = c + 1
                     /\ execd'[c] = 1
                     /\ NothingAfter(c)
                ELSE /\ pc' = "prompt"
                     /\ err' = "none"
                     /\ ended' = Append(ended, "none")]_vars

\* C12: a string without brackets has been executed to its end, over two
\* chunk boundaries and back, the input used up on the way
AllExecutedOnce ==
    /\ Returned
    /\ NoBracket(line)
    /\ Len(line) >= 19
    /\ Len(chunks) >= 3
    /\ stdin = <<>>
    /\ ended = <<"none">>

IsInstruction(ch) == ch \in Instructions
\* the string l without the bytes that are no instructions
Stripped(l) == SelectSeq(l, IsInstruction)
\* how many of the first p characters of l are instructions: where the
\* character at p, if it is one, is in Stripped(l)
Pos(l, p) == Cardinality({i \in 1..p : IsInstruction(l[i])})
\* the state of execute on Stripped(line) that corresponds to state s of
\* execute on line: about to execute the same instruction, the same
\* brackets on the jump stack, all else equal
InStripped(s) ==
    [s EXCEPT !.c = Pos(line, s.c - 1) + 1,
              !.stack = [i \in 1..Len(s.stack) |-> Pos(line, s.stack[i])]]

\* C13: execute on a string and execute on that string without its bytes
\* that are no instructions go through the same states of the tape, the
\* cursor, the output, the input and the diagnostic, and end alike: an
\* iteration at an instruction, or the return, is the iteration or the
\* return of the call on the stripped string in the corresponding state,
\* and an iteration at any other byte leaves the corresponding state as it
\* is.
Transparent ==
    [][pc = "exec" =>
          IF c <= Len(line) /\ ~IsInstruction(line[c])
          THEN InStripped(Current)' = InStripped(Current)
          ELSE InStripped(Current)'
                  = Iterate(Stripped(line), InStripped(Current))]_vars

\* C13: a loop with other bytes before it, in it and after it has run and
\* the call has returned
CommentedLoopDone ==
    /\ Returned
    /\ line = Commented
    /\ err = "none"
    /\ out = <<0>>
    /\ \A i \in 1..Len(line) : execd[i] > 0

\* the '[' less the ']' among the characters a..b of l
Depth(l, a, b) ==
    Cardinality({i \in a..b : l[i] = LB})
        - Cardinality({i \in a..b : l[i] = RB})

\* the ']' at r balances the '[' at p: the brackets between them are
\* balanced among themselves
Partner(l, p, r) ==
    /\ p < r /\ r <= Len(l)
    /\ l[p] = LB /\ l[r] = RB
    /\ Depth(l, p + 1, r - 1) = 0
    /\ \A k \in (p + 1)..(r - 1) : Depth(l, p + 1, k) >= 0

\* C14: a '[' executed on a zero cell that has a balancing ']' moves the
\* instruction pointer to the character after that ']' without executing
\* anything between, the ']' included, and leaves the tape, the cursor, the
\* jump stack and the streams as they are; the call goes on from there.
ZeroSkipsBody ==
    [][(Reaches(LB) /\ Cell = 0 /\ \E r \in 1..Len(line) : Partner(line, c, r))
          => /\ Partner(line, c, c' - 1)
             /\ pc' = "exec"
             /\ err' = "none"
             /\ execd'[c] = execd[c] + 1
             /\ NothingAfter(c)
             /\ UNCHANGED <<tape, stack, stdin, out, inp>>]_vars

\* C14: [[-]>] was skipped as a whole on a zero cell
SkippedNested ==
    /\ pc = "exec"
    /\ line = ClearTwo
    /\ Cell = 0
    /\ c = Len(line) + 1
    /\ execd[1] = 1
    /\ \A i \in 2..Len(line) : execd[i] = 0

\* the brackets of l are balanced
Balanced(l) ==
    /\ Depth(l, 1, Len(l)) = 0
    /\ \A k \in 1..Len(l) : Depth(l, 1, k) >= 0

\* the jump table of a string with balanced brackets: the partner of every
\* bracket
JumpTable(l) ==
    [p \in {i \in 1..Len(l) : l[i] \in {LB, RB}} |->
        CHOOSE q \in 1..Len(l) : Partner(l, p, q) \/ Partner(l, q, p)]

\* a state of execute without its jump stack
Observed(s) == [s EXCEPT !.stack = <<>>]

\* one step of the reference interpreter, which has no jump stack: a '['
\* on zero goes past its partner, a ']' on non-zero goes back to just after
\* its partner, and everything else is as in execute
RefIterate(l, table, s) ==
    LET cell == s.chunks[s.page].mem[s.data + 1]
    IN  IF s.c > Len(l) THEN [s EXCEPT !.pc = "prompt"]
        ELSE IF l[s.c] = LB
        THEN [s EXCEPT !.c = IF cell = 0 THEN table[s.c] + 1 ELSE s.c + 1]
        ELSE IF l[s.c] = RB
        THEN [s EXCEPT !.c = IF cell # 0 THEN table[s.c] + 1 ELSE s.c + 1]
        ELSE Iterate(l, s)

\* C15: on a string with balanced brackets every step of execute is the
\* step of the reference interpreter with the jump table of the string: the
\* same instruction is executed next, with the same tape, cursor, output
\* and input, and the call returns when the reference does, without a
\* diagnostic.
SameAsJumpTable ==
    [][(pc = "exec" /\ Balanced(line))
          => Observed(Current)'
                = RefIterate(line, JumpTable(line), Observed(Current))]_vars

\* C15: [>[-]<-] has returned after two rounds of the outer loop, the inner
\* loop having run twice in the first of them
NestedLoopsDone ==
    /\ Returned
    /\ line = SetThree \o DrainBoth
    /\ err = "none"
    /\ inp = <<2, 2, 0>>
    /\ execd[Len(SetThree) + 4] = 2
    /\ execd[Len(SetThree) + 8] = 2

\* the chunks from chunk p on rightwards, at most n of them
RECURSIVE Walk(_, _, _)
Walk(chs, p, n) ==
    IF p = NULL \/ n = 0 THEN <<>>
    ELSE <<p>> \o Walk(chs, chs[p].next, n - 1)

\* the chunks from left to right
Order(chs) ==
    Walk(chs, CHOOSE p \in 1..Len(chs) : chs[p].prev = NULL, Len(chs))

\* the index of chunk p: the first chunk has index 0, its right neighbour
\* 1, its left neighbour -1, and so on
Index(chs, p) ==
    LET ord == Order(chs)
        at(q) == CHOOSE i \in 1..Len(ord) : ord[i] = q
    IN  at(p) - at(1)

\* the address of the cell at offset d of chunk p, and of the cursor
Address(chs, p, d) == Index(chs, p) * chunklen + d
Cursor == Address(chunks, page, data)

\* C16: every chunk has an index of its own, so every cell an address of
\* its own; '>' raises the address of the cursor by one and '<' lowers it
\* by one, whether or not a chunk boundary is crossed or a chunk is
\* allocated, and neither changes a cell; '+', '-' and ',' leave the cursor
\* where it is, allocate nothing and change no cell but the one under it;
\* no step of a call changes the index of a chunk, a new chunk coming at
\* the left or the right end, or changes a cell that is not under the
\* cursor.
FlatTape ==
    /\ [](LET ord == Order(chunks)
          IN  /\ Len(ord) = Len(chunks)
              /\ {ord[i] : i \in 1..Len(ord)} = ChunkIds)
    /\ [][pc = "exec" =>
            LET old == Order(chunks)
                new == Order(chunks')
                to == Address(chunks', page', data')
                written ==
                    IF c <= Len(line) /\ line[c] \in {PLUS, MINUS, COMMA}
                    THEN {<<page, data>>}
                    ELSE {}
            IN  /\ Reaches(GT) => to = Cursor + 1
                /\ Reaches(LT) => to = Cursor - 1
                /\ (Reaches(PLUS) \/ Reaches(MINUS) \/ Reaches(COMMA)) =>
                      to = Cursor /\ Len(chunks') = Len(chunks)
                /\ \/ new = old
                   \/ new = <<Len(chunks')>> \o old
                   \/ new = old \o <<Len(chunks')>>
                /\ \A p \in ChunkIds : \A d \in 0..(chunklen - 1) :
                      <<p, d>> \notin written
                          => ByteAt(chunks', p, d) = ByteAt(chunks, p, d)]_vars

\* C16: the cursor has gone left over two chunk boundaries, both chunks
\* allocated on the way, to the address seven below where it started
SevenBelow ==
    /\ pc = "exec"
    /\ c > 1
    /\ line[c - 1] = LT
    /\ Len(chunks0) = 1
    /\ Len(chunks) = 3
    /\ Cursor = Address(chunks0, page0, data0) - 7

\* what the process reports when an allocation fails
MemoryErrors ==
    {ChunkTypeError, ChunkMemError, JumpstackError, BufferError, ResizeError,
     LineError}

\* C17: whenever a request for a chunk, a jump record or the text buffer
\* fails, the process has reported it and exited, with the tape as it was
\* and no instruction executed since; that holds as well when the request
\* fails before main reads anything.
AllocationFailureIsFatal ==
    /\ [](heap.failed # "none" => pc = "exited" /\ err \in MemoryErrors)
    /\ [][(heap.failed = "none" /\ heap'.failed # "none")
             => /\ UNCHANGED <<tape, out, inp>>
                /\ NothingAfter(c)]_vars
    /\ [][pc = "exited" => UNCHANGED vars]_vars

\* C18: for every '[' of the instruction string, match_right returns the
\* position of the ']' that balances it, which is the first ']' behind it
\* that the nesting count reaches at zero, when there is one, and NULL when
\* there is none; the result is a position behind the '[' inside the
\* string, whatever the tape holds.
MatchRightBalances ==
    \A p \in 1..Len(line) :
        line[p] = LB =>
            LET r == match_right(line, p)
            IN  IF \E q \in 1..Len(line) : Partner(line, p, q)
                THEN /\ Partner(line, p, r)
                     /\ \A q \in (p + 1)..(r - 1) : ~Partner(line, p, q)
                ELSE r = NULL

\* C18: [[][] is being executed; its first '[' has no ']' of its own, the
\* two others have, and match_right was called for the first
ScannedNested ==
    /\ pc = "exec"
    /\ line = <<LB, LB, RB, LB, RB>>
    /\ execd[1] = 1
    /\ match_right(line, 1) = NULL
    /\ match_right(line, 2) = 3
    /\ match_right(line, 4) = 5

\* C19, as claimed: a ']' executed on a non-zero cell with a jump record on
\* the stack goes back to the recorded '[', which is the next instruction
\* executed.
RepeatRunsLeftBracket ==
    [][(Reaches(RB) /\ Cell # 0 /\ stack # <<>>)
          => /\ pc' = "exec"
             /\ c' = Head(stack)
             /\ line[c'] = LB]_vars

\* C19, amended: a ']' executed on a non-zero cell with a jump record on
\* the stack goes on with the instruction behind the recorded '[': the '['
\* is not executed again, nothing is pushed or popped, and the tape, the
\* cursor and the streams stay as they are.
RepeatSkipsLeftBracket ==
    [][(Reaches(RB) /\ Cell # 0 /\ stack # <<>>)
          => /\ pc' = "exec"
             /\ err' = "none"
             /\ line[Head(stack)] = LB
             /\ c' = Head(stack) + 1
             /\ execd'[Head(stack)] = execd[Head(stack)]
             /\ NothingAfter(c)
             /\ UNCHANGED <<tape, stack, stdin, out, inp>>]_vars

\* C19: the ']' of [-] has gone back for the second time, the '[' executed
\* once
BackTwice ==
    /\ pc = "exec"
    /\ line = Clear
    /\ c = 2
    /\ execd = <<1, 2, 2>>
    /\ stack = <<1>>

\* the '[' before position p of l whose balancing ']' is at p or behind it:
\* the loops that enclose position p
Enclosing(l, p) ==
    {q \in 1..(p - 1) : l[q] = LB /\ \E r \in p..Len(l) : Partner(l, q, r)}

\* how deep the brackets of l nest
NestingDepth(l) ==
    LET depths == {Depth(l, 1, k) : k \in 0..Len(l)}
    IN  CHOOSE d \in depths : \A e \in depths : e <= d

\* C20: while a call executes, the jump stack holds the positions of
\* exactly those '[' whose loops enclose the instruction pointer, the
\* innermost on top, each of them once however often its loop has gone
\* round; so a ']' that is executed with a record on the stack finds the
\* '[' it balances on top, and the stack is never deeper than the brackets
\* of the string nest.
StackIsEnclosingLoops ==
    pc = "exec" =>
        /\ {stack[i] : i \in 1..Len(stack)} = Enclosing(line, c)
        /\ \A i \in 1..(Len(stack) - 1) : stack[i] > stack[i + 1]
        /\ Len(stack) <= NestingDepth(line)
        /\ (Reaches(RB) /\ stack # <<>>) => Partner(line, Head(stack), c)

\* C20: the innermost loop of [[[-]]] is at its ']' for the second time,
\* under two enclosing loops
ThreeDeep ==
    /\ pc = "exec"
    /\ line = SetThree \o <<LB, LB, LB, MINUS, RB, RB, RB>>
    /\ Len(stack) = 3
    /\ c = Len(SetThree) + 5
    /\ execd[c] = 1

\* C21: when the instruction pointer of a call reaches the terminator, the
\* jump stack is empty, whatever the string, so that the return has no
\* record to discard; a call that returns that way reports nothing.
NothingLeftOnStack ==
    /\ [](pc = "exec" /\ c > Len(line) => stack = <<>> /\ err = "none")
    /\ [][(pc = "exec" /\ c > Len(line))
             => /\ pc' = "prompt"
                /\ err' = "none"
                /\ stack' = stack]_vars

\* C21: a call is at the terminator of a string whose last '[' has no ']';
\* that '[' was executed on a non-zero cell
EndedInOpenLoop ==
    /\ pc = "exec"
    /\ c = Len(line) + 1
    /\ c > 1
    /\ line[c - 1] = LB
    /\ execd[c - 1] = 1
    /\ Cell # 0
    /\ ~Balanced(line)

\* C22: a call on a string with balanced brackets reports no bracket error
\* and fails no assertion: a ']' on a zero cell, which calls pop_jump,
\* finds a record on the stack; a chunk is added on the right only to a
\* chunk without right neighbour and on the left only to a chunk without
\* left neighbour, the cursor being on that chunk; and the step that calls
\* match_right is the step at a '[', which is called with the position of
\* that '['.
BalancedNeverFails ==
    /\ [](Balanced(line) => pc # "crashed" /\ err = "none")
    /\ [][(Balanced(line) /\ pc = "exec")
             => /\ pc' \in {"exec", "prompt"}
                /\ err' = "none"
                /\ (Reaches(RB) /\ Cell = 0) =>
                      stack # <<>> /\ stack' = Tail(stack)
                /\ (Reaches(RB) /\ Cell # 0) => stack # <<>>
                /\ Len(chunks') > Len(chunks) =>
                      \/ Reaches(GT) /\ chunks[page].next = NULL
                      \/ Reaches(LT) /\ chunks[page].prev = NULL
                /\ stack' # stack /\ Len(stack') > Len(stack) =>
                      /\ Reaches(LB)
                      /\ Head(stack') = c
                      /\ Partner(line, c, match_right(line, c))]_vars

\* C22: [>[[-]]<[-]] has returned after its inner loops were entered and
\* left
DeepBalancedDone ==
    /\ Returned
    /\ line = SetThree
                \o <<LB, GT, LB, LB, MINUS, RB, RB, LT, LB, MINUS, RB, RB>>
    /\ err = "none"
    /\ inp = <<2, 2, 0>>
    /\ \A i \in 1..Len(line) : execd[i] > 0


(***************************************************************************)
(* Two calls of execute and one call on the two strings joined.            *)
(***************************************************************************)

\* the first of two strings: the text of the file, when the call of execute
\* on it has returned and the call on the first typed line is under way
First == get_prog(file.text)

SecondCall ==
    /\ argc = 2 /\ file.exists
    /\ mode = "line"
    /\ ended = <<"none">>

\* the state of execute on string p \o line that is at the same place of
\* line as state s: the position and the records of the jump stack are
\* further along by the length of p
Joined(p, s) ==
    [s EXCEPT !.c = @ + Len(p),
              !.stack = [i \in DOMAIN @ |-> @[i] + Len(p)]]

\* C23: executing two strings with balanced brackets in two successive
\* calls of execute is executing the two joined in one call.  As long as
\* the first call is inside its string, each of its steps is the step of
\* execute on that string with any balanced string after it.  It reaches
\* its terminator with an empty jump stack and without a diagnostic and
\* returns, and main enters the second call, at the start of its string
\* and with an empty stack, with the tape, the cursor, the output and the
\* bytes read by ',' as they were.  Each step of the second call, its
\* return included, is the step of execute on the joined string from the
\* state that is as far into the joined string as the first string is long.
Composes ==
    /\ [][(pc = "exec" /\ Balanced(line) /\ c <= Len(line))
             => \A p \in Pieces : Current' = Iterate(line \o p, Current)]_vars
    /\ [][(pc = "exec" /\ Balanced(line) /\ c > Len(line))
             => /\ stack = <<>> /\ err = "none"
                /\ pc' = "prompt" /\ err' = "none"
                /\ tape' = tape /\ out' = out /\ inp' = inp
                /\ stdin' = stdin]_vars
    /\ [][(pc = "prompt" /\ pc' = "exec")
             => /\ c' = 1 /\ stack' = <<>> /\ err' = "none"
                /\ tape' = tape /\ out' = out /\ inp' = inp]_vars
    /\ [][(pc = "exec" /\ SecondCall /\ Balanced(First) /\ Balanced(line))
             => \A p \in {First} :
                   Joined(p, Current)'
                      = Iterate(p \o line, Joined(p, Current))]_vars

\* C23: the file was +[>+<-], which moves a one to the next cell, and the
\* typed line >[-], which goes there and clears it; both calls have
\* returned, and the loop of the second has run once
MovedThenCleared ==
    /\ Returned
    /\ First = <<PLUS, LB, GT, PLUS, LT, MINUS, RB>>
    /\ line = <<GT, LB, MINUS, RB>>
    /\ ended = <<"none", "none">>
    /\ execd[3] = 1
    /\ Cell = 0
    /\ err = "none"
=============================================================================
